---- MODULE Spec2Model ----
(***************************************************************************)
(* Model of models/crf_v2/crf_preprocess_data.py (CrfPreprocessData): the  *)
(* preprocessing pipeline that turns raw sentences and their entity        *)
(* strings into IOB labels and CRF feature vectors.                        *)
(*                                                                         *)
(* A string is a sequence of one-character strings; a token, an entity and *)
(* a text are strings in that sense.                                       *)
(***************************************************************************)
EXTENDS Integers, Sequences, FiniteSets, TLC

(***************************************************************************)
(* Bounds of the model.                                                    *)
(***************************************************************************)
MaxTextLen == 5
MaxWords == 4
MaxEntities == 2
MaxBatch == 2

(***************************************************************************)
(* models/crf_v2/constants.py: the markers, labels and feature names the   *)
(* module imports.                                                         *)
(***************************************************************************)
B_TAG == <<"B", "_">>
I_TAG == <<"I", "_">>
B_LABEL == "B"
I_LABEL == "I"
O_LABEL == "O"
BOS == "BOS"
EOS == "EOS"
WORD_VEC_FEATURE == "word_vec"

(***************************************************************************)
(* Generic helpers on sequences.                                           *)
(***************************************************************************)
RECURSIVE Flatten(_)
Flatten(ss) == IF ss = <<>> THEN <<>> ELSE Head(ss) \o Flatten(Tail(ss))

Min(a, b) == IF a < b THEN a ELSE b

SeqsUpTo(S, n) == UNION {[1..k -> S] : k \in 0..n}

\* Python's `needle in haystack` on strings: needle is a contiguous substring.
Contains(haystack, needle) ==
    \E p \in 0..(Len(haystack) - Len(needle)) :
        \A k \in 1..Len(needle) : haystack[p + k] = needle[k]

(***************************************************************************)
(* str.lower / isupper / istitle / isdigit on the model's alphabet.        *)
(***************************************************************************)
LowerChar(c) == IF c = "A" THEN "a" ELSE IF c = "B" THEN "b" ELSE IF c = "I" THEN "i" ELSE c
IsUpperChar(c) == c \in {"A", "B", "I"}
IsLowerChar(c) == c \in {"a", "b", "i"}
IsCased(c) == IsUpperChar(c) \/ IsLowerChar(c)

Lower(w) == [k \in 1..Len(w) |-> LowerChar(w[k])]

\* str.isupper: at least one cased character and no lowercase one.
IsUpper(w) == (\E k \in 1..Len(w) : IsUpperChar(w[k])) /\ (\A k \in 1..Len(w) : ~IsLowerChar(w[k]))

\* str.istitle: uppercase only after uncased, lowercase only after cased, one cased at least.
IsTitle(w) ==
    /\ \E k \in 1..Len(w) : IsCased(w[k])
    /\ \A k \in 1..Len(w) :
          LET prevCased == k > 1 /\ IsCased(w[k - 1])
          IN /\ IsUpperChar(w[k]) => ~prevCased
             /\ IsLowerChar(w[k]) => prevCased

\* str.isdigit: the alphabet holds no digit.
IsDigit(w) == FALSE

(***************************************************************************)
(* lib/nlp/tokenizer.py, Tokenizer(NLTK_TOKENIZER).tokenize, an external   *)
(* collaborator: whitespace separates tokens, a parenthesis is a token of   *)
(* its own, and the final period of the text is split from the word before *)
(* it.                                                                     *)
(***************************************************************************)
RECURSIVE PadParens(_)
PadParens(s) ==
    IF s = <<>> THEN <<>>
    ELSE IF Head(s) = "(" THEN <<" ", "(", " ">> \o PadParens(Tail(s))
    ELSE <<Head(s)>> \o PadParens(Tail(s))

RECURSIVE RStrip(_)
RStrip(s) == IF s # <<>> /\ s[Len(s)] = " " THEN RStrip(SubSeq(s, 1, Len(s) - 1)) ELSE s

SplitFinalPeriod(s) ==
    LET r == RStrip(s)
    IN IF Len(r) >= 2 /\ r[Len(r)] = "." /\ r[Len(r) - 1] # "."
       THEN SubSeq(r, 1, Len(r) - 1) \o <<" ", ".">>
       ELSE s

RECURSIVE SplitWs(_, _, _)
SplitWs(s, cur, out) ==
    IF s = <<>> THEN (IF cur = <<>> THEN out ELSE Append(out, cur))
    ELSE IF Head(s) = " "
         THEN SplitWs(Tail(s), <<>>, IF cur = <<>> THEN out ELSE Append(out, cur))
         ELSE SplitWs(Tail(s), Append(cur, Head(s)), out)

Tokenize(s) == SplitWs(SplitFinalPeriod(PadParens(s)), <<>>, <<>>)

RECURSIVE Join(_)
Join(toks) ==
    IF toks = <<>> THEN <<>>
    ELSE IF Len(toks) = 1 THEN toks[1]
    ELSE toks[1] \o <<" ">> \o Join(Tail(toks))

(***************************************************************************)
(* Python's re on the pattern r'\b%s\b' % entity, the entity not escaped:  *)
(* '.' matches any character, an unbalanced '(' is a compile error (the    *)
(* alphabet holds no ')'), every other character matches itself.           *)
(***************************************************************************)
IsWordChar(c) == c \in {"a", "A", "B", "I", "_"}

ReCompileError(entity) == \E k \in 1..Len(entity) : entity[k] = "("

AtomMatches(atom, c) == atom = "." \/ atom = c

\* \b between s[p] and s[p+1] (p in 0..Len(s)).
WordBoundary(s, p) ==
    LET before == p >= 1 /\ IsWordChar(s[p])
        after == p < Len(s) /\ IsWordChar(s[p + 1])
    IN before # after

\* the pattern matches s[p+1 .. p+Len(entity)]
MatchAt(s, entity, p) ==
    /\ p + Len(entity) <= Len(s)
    /\ WordBoundary(s, p)
    /\ WordBoundary(s, p + Len(entity))
    /\ \A k \in 1..Len(entity) : AtomMatches(entity[k], s[p + k])

\* re.sub: leftmost matches, left to right, not overlapping, each replaced by repl.
RECURSIVE ReSubFrom(_, _, _, _)
ReSubFrom(s, entity, repl, p) ==
    IF p >= Len(s) THEN <<>>
    ELSE IF MatchAt(s, entity, p)
         THEN repl \o ReSubFrom(s, entity, repl, p + Len(entity))
         ELSE <<s[p + 1]>> \o ReSubFrom(s, entity, repl, p + 1)

\* mutant: only the first match is replaced (count=1)
RECURSIVE ReSubFirstFrom(_, _, _, _)
ReSubFirstFrom(s, entity, repl, p) ==
    IF p >= Len(s) THEN <<>>
    ELSE IF MatchAt(s, entity, p)
         THEN repl \o SubSeq(s, p + Len(entity) + 1, Len(s))
         ELSE <<s[p + 1]>> \o ReSubFirstFrom(s, entity, repl, p + 1)

ReSub_first_only(entity, repl, s) == ReSubFirstFrom(s, entity, repl, 0)

ReSub(entity, repl, s) == ReSubFrom(s, entity, repl, 0)

(***************************************************************************)
(* CrfPreprocessData.pre_process_text_                                     *)
(***************************************************************************)
\* iob_prefixes: the entity's tokens, the first prefixed B_TAG, the others I_TAG.
iob_prefixes(entity_value) ==
    LET toks == Tokenize(entity_value)
    IN Join([i_ \in 1..Len(toks) |-> IF i_ = 1 THEN B_TAG \o toks[i_] ELSE I_TAG \o toks[i_]])

\* the sort key of line 54: the entity's token count
EntityKey(s) == Len(Tokenize(s))

\* list.sort(key, reverse=True) is stable: equal keys keep their order.
RECURSIVE InsertByKey(_, _)
InsertByKey(sorted, e) ==
    IF sorted = <<>> THEN <<e>>
    ELSE IF EntityKey(Head(sorted)) >= EntityKey(e)
         THEN <<Head(sorted)>> \o InsertByKey(Tail(sorted), e)
         ELSE <<e>> \o sorted

RECURSIVE SortEntities(_)
SortEntities(entities) ==
    IF entities = <<>> THEN <<>>
    ELSE InsertByKey(SortEntities(SubSeq(entities, 1, Len(entities) - 1)),
                     entities[Len(entities)])

\* the loop of lines 57-58 over the sorted entities
RECURSIVE SubstituteAll(_, _)
SubstituteAll(text, entities) ==
    IF entities = <<>> THEN text
    ELSE SubstituteAll(ReSub(Head(entities), iob_prefixes(Head(entities)), text),
                       Tail(entities))

\* the label of one marked token (lines 62-64)
LabelOf(marked_token) ==
    IF Contains(marked_token, B_TAG) THEN B_LABEL
    ELSE IF Contains(marked_token, I_TAG) THEN I_LABEL
    ELSE O_LABEL

\* mutant: one label per entity-marked token
LabelCount_marked(tokenized_original_text, tokenized_text) == Len(tokenized_text)

\* the number of labels built: range(len(tokenized_original_text))
LabelCount(tokenized_original_text, tokenized_text) == Len(tokenized_original_text)

\* mutant: the entities are substituted in the order given
SubstitutionOrder_unsorted(entities) == entities

\* the order in which the entities are substituted
SubstitutionOrder(entities) == SortEntities(entities)

\* Returns [error, tokens, labels]; error is "none" when the call returns.
pre_process_text_(text, entities) ==
    LET sorted == SubstitutionOrder(entities)
        tokenized_original_text == Tokenize(text)
    IN IF \E k \in 1..Len(sorted) : ReCompileError(sorted[k])
       THEN [error |-> "re.error", tokens |-> <<>>, labels |-> <<>>]
       ELSE LET tokenized_text == Tokenize(SubstituteAll(text, sorted))
                n == LabelCount(tokenized_original_text, tokenized_text)
            IN IF n > Len(tokenized_text)
               THEN [error |-> "IndexError", tokens |-> <<>>, labels |-> <<>>]
               ELSE [error |-> "none",
                     tokens |-> tokenized_original_text,
                     labels |-> [i \in 1..n |-> LabelOf(tokenized_text[i])]]

(***************************************************************************)
(* lib/nlp/pos.py, POS().tagger.tag, an external collaborator: one         *)
(* (token, tag) pair per token.                                            *)
(***************************************************************************)
TagOf(token) ==
    IF token = <<".">> THEN "."
    ELSE IF IsTitle(token) THEN "NNP"
    ELSE "NN"

TaggerTag(tokens) == [k \in 1..Len(tokens) |-> <<tokens[k], TagOf(tokens[k])>>]

\* CrfPreprocessData.pos_tag, the body of its loop (line 153)
PosTagsOf(text) ==
    LET tagged == TaggerTag(text)
    IN [k \in 1..Len(tagged) |-> tagged[k][2]]

(***************************************************************************)
(* models/crf_v2/word_embeddings.py, LoadWordEmbeddings, an external       *)
(* collaborator: the local table is a vocabulary of lowercase words and a  *)
(* parallel array of vectors; the remote service returns one row per word  *)
(* it is sent, the row the table stores for that word.                     *)
(***************************************************************************)
EmbeddingStores ==
    { [vocab |-> << <<"a">>, <<"a", "a">> >>,
       word_vectors |-> << <<1, 2>>, <<3, 4>> >>],
      [vocab |-> << <<"a", "a">>, <<".">>, <<"a">> >>,
       word_vectors |-> << <<5>>, <<6>>, <<7>> >>] }

\* np.zeros([n])
Zeros(n) == [k \in 1..n |-> 0]

\* word_vectors.shape[1]
Shape1(word_vectors) == Len(word_vectors[1])

StoredVector(st, word) ==
    IF \E k \in 1..Len(st.vocab) : st.vocab[k] = Lower(word)
    THEN st.word_vectors[CHOOSE k \in 1..Len(st.vocab) : st.vocab[k] = Lower(word)]
    ELSE Zeros(Shape1(st.word_vectors))

load_word_vectors_remote(st, words_list) ==
    [k \in 1..Len(words_list) |-> StoredVector(st, words_list[k])]

(***************************************************************************)
(* CrfPreprocessData.word_embeddings                                       *)
(***************************************************************************)
\* list.index: the first position holding w (w is in the list)
RECURSIVE ListIndex(_, _, _)
ListIndex(list, w, k) == IF list[k] = w THEN k ELSE ListIndex(list, w, k + 1)

InList(list, w) == \E k \in 1..Len(list) : list[k] = w

\* mutant: the token is looked up as written
LookupKey_as_written(token) == token

\* the key a token is looked up by (lines 82-83)
LookupKey(token) == Lower(token)

WordVec(token, vocab_, word_vectors_) ==
    IF InList(vocab_, LookupKey(token))
    THEN word_vectors_[ListIndex(vocab_, LookupKey(token), 1)]
    ELSE Zeros(Shape1(word_vectors_))

\* mutant: a token outside the vocabulary gets no embedding at all
word_embeddings_skipping(processed_pos_tag_data, vocab_, word_vectors_) ==
    LET known == SelectSeq(processed_pos_tag_data, LAMBDA token : InList(vocab_, LookupKey(token)))
    IN [k \in 1..Len(known) |-> WordVec(known[k], vocab_, word_vectors_)]

word_embeddings(processed_pos_tag_data, vocab_, word_vectors_) ==
    [k \in 1..Len(processed_pos_tag_data) |->
        WordVec(processed_pos_tag_data[k], vocab_, word_vectors_)]

\* CrfPreprocessData.remote_word_embeddings: the flattened token list and its rows
remote_words_list(text_dict) == Flatten(text_dict.text_list)

(***************************************************************************)
(* CrfPreprocessData.convert_wordvec_features and word_to_features.        *)
(* A feature string prefix + name + '=' + value is the record              *)
(* [prefix, name, idx, value]; idx numbers the unrolled vector components. *)
(***************************************************************************)
Feat(prefix, name, idx, value) ==
    [prefix |-> prefix, name |-> name, idx |-> idx, value |-> value]

\* '%s' % bool
BoolStr(b) == IF b THEN <<"True">> ELSE <<"False">>

convert_wordvec_features(prefix, word_vec) ==
    [k \in 1..Len(word_vec) |-> Feat(prefix, WORD_VEC_FEATURE, k - 1, <<word_vec[k]>>)]

\* lines 198-208: the features of the current word
CurrentFeatures(word, pos_tag, word_embedding) ==
    << Feat("", "bias", 0, <<>>),
       Feat("", "word.lower", 0, Lower(word)),
       Feat("", "word.isupper", 0, BoolStr(IsUpper(word))),
       Feat("", "word.istitle", 0, BoolStr(IsTitle(word))),
       Feat("", "word.isdigit", 0, BoolStr(IsDigit(word))),
       Feat("", "pos_tag", 0, <<pos_tag>>) >>
    \o convert_wordvec_features("", word_embedding)

\* lines 214-227, 230-241, 249-259, 262-272: the features of one neighbour
NeighbourFeatures(prefix, word1, pos_tag, word_embedding) ==
    << Feat(prefix, "word.lower", 0, Lower(word1)),
       Feat(prefix, "word.istitle", 0, BoolStr(IsTitle(word1))),
       Feat(prefix, "word.isupper", 0, BoolStr(IsUpper(word1))),
       Feat(prefix, "word.isdigit", 0, BoolStr(IsDigit(word1))),
       Feat(prefix, "pos_tag", 0, <<pos_tag>>) >>
    \o convert_wordvec_features(prefix, word_embedding)

\* the window conditions, j counted from 0 and n the sentence's length
HasLeft2(j) == j > 1
HasLeft1(j) == j > 0
\* mutant: off by one
HasRight2_off_by_one(j, n) == j < n - 3
HasRight2(j, n) == j < n - 2
HasRight1(j, n) == j < n - 1

\* mutant: the neighbour's features are read at the current token
NeighbourAt_current(d, i, j, off, prefix) ==
    NeighbourFeatures(prefix,
                      d.text_list[i][j + 1],
                      d.pos_tags[i][j + 1],
                      d.word_embeddings[i][j + 1])

\* the neighbour at offset off of token j of sentence i (j from 0, i from 1)
NeighbourAt(d, i, j, off, prefix) ==
    NeighbourFeatures(prefix,
                      d.text_list[i][j + off + 1],
                      d.pos_tags[i][j + off + 1],
                      d.word_embeddings[i][j + off + 1])

LeftWindow(d, i, j) ==
    (IF HasLeft2(j) THEN NeighbourAt(d, i, j, -2, "-2") ELSE <<>>)
    \o (IF HasLeft1(j) THEN NeighbourAt(d, i, j, -1, "-1")
        ELSE << Feat("", BOS, 0, <<>>) >>)

RightWindow(d, i, j) ==
    LET n == Len(d.text_list[i])
    IN (IF HasRight2(j, n) THEN NeighbourAt(d, i, j, 2, "+2") ELSE <<>>)
       \o (IF HasRight1(j, n) THEN NeighbourAt(d, i, j, 1, "+1")
           ELSE << Feat("", EOS, 0, <<>>) >>)

word_to_features(d, i, j) ==
    CurrentFeatures(d.text_list[i][j + 1], d.pos_tags[i][j + 1], d.word_embeddings[i][j + 1])
    \o LeftWindow(d, i, j)
    \o RightWindow(d, i, j)

\* extract_features, the body of its loop (line 295)
SentenceFeatures(d, i) ==
    [j1 \in 1..Len(d.text_list[i]) |-> word_to_features(d, i, j1 - 1)]

(***************************************************************************)
(* The inputs get_processed_x_y is called with.                            *)
(***************************************************************************)
Str_a == <<"a">>
Str_A == <<"A">>
Str_A_a == <<"A", " ", "a">>
Str_a_a == <<"a", " ", "a">>

\* the batches of the pipeline: sentences of 1, 2 and 6 tokens
PipelineTexts ==
    { Str_A,
      Str_A_a,
      <<"A", " ", "a", " ", "a", "a", "a", " ", "a", "a", " ", "a", ".">> }

\* no entity; two entities, the shorter first; an entity that is no valid pattern;
\* an entity whose pattern matches what its text does not
PipelineEntities ==
    { <<>>,
      <<Str_a, Str_A_a>>,
      << <<"a", "(">> >>,
      << <<"a", ".">> >> }

TextLists == SeqsUpTo(PipelineTexts, MaxBatch)
EntityLists == SeqsUpTo(PipelineEntities, MaxBatch)

\* the inputs of one call of pre_process_text_: every text over TextChars up to
\* MaxTextLen characters, and every text of up to MaxWords single-spaced words
TextChars == {"a", "A", " "}
TextWords == {Str_a, Str_A}
Texts == SeqsUpTo(TextChars, MaxTextLen) \cup {Join(ws) : ws \in SeqsUpTo(TextWords, MaxWords)}

\* entities that are words separated by single spaces
PlainEntities == {Str_a, Str_A, Str_A_a, Str_a_a}
\* entities with characters special to re, beside an ordinary one
PatternEntities == {Str_a, <<"a", ".", "a">>, <<"a", ".">>, <<"a", "(">>}

Store1 == CHOOSE st \in EmbeddingStores : Shape1(st.word_vectors) = 2

(***************************************************************************)
(* State.                                                                  *)
(***************************************************************************)
VARIABLES
    pc,                \* the stage get_processed_x_y is in, "done" or "raised"
    i,                 \* the sentences the current stage's loop has handled
    text_list,         \* argument
    entity_list,       \* argument (each list is sorted in place, line 54)
    cloud_embeddings,  \* argument
    store,             \* the table LoadWordEmbeddings serves
    doc,               \* processed_text: text_list, labels, pos_tags, word_embeddings
    loaded,            \* the embedding source has been consulted
    vocab,             \* local of get_processed_x_y
    word_vectors,      \* local of get_processed_x_y
    features,          \* local of extract_features
    returned,          \* what the call returned
    error              \* the exception that left the call, or "none"

vars == <<pc, i, text_list, entity_list, cloud_embeddings, store, doc, loaded,
          vocab, word_vectors, features, returned, error>>

EmptyDoc == [text_list |-> <<>>, labels |-> <<>>, pos_tags |-> <<>>, word_embeddings |-> <<>>]
NoReturn == [set |-> FALSE, features |-> <<>>, labels |-> <<>>]

Entry ==
    /\ pc = "pre_process_text"
    /\ i = 0
    /\ doc = EmptyDoc
    /\ loaded = FALSE
    /\ vocab = <<>>
    /\ word_vectors = <<>>
    /\ features = <<>>
    /\ returned = NoReturn
    /\ error = "none"

Init ==
    /\ text_list \in TextLists
    /\ entity_list \in EntityLists
    /\ cloud_embeddings \in BOOLEAN
    /\ store \in EmbeddingStores
    /\ Entry

AlignEntry(pool) ==
    /\ text_list \in {<<t>> : t \in Texts}
    /\ entity_list \in {<<es>> : es \in SeqsUpTo(pool, MaxEntities)}
    /\ cloud_embeddings = FALSE
    /\ store = Store1
    /\ Entry

InitAlign == AlignEntry(PlainEntities)

InitPattern == AlignEntry(PatternEntities)

\* mutant: the embedding source is loaded before POS tagging
NextStage_load_first(stage) ==
    CASE stage = "pre_process_text" -> "load_embeddings"
      [] stage = "load_embeddings" -> "pos_tag"
      [] stage = "pos_tag" -> "word_embeddings"
      [] stage = "word_embeddings" -> "extract_features"
      [] stage = "extract_features" -> "done"

\* the order of the stages in get_processed_x_y (lines 311-342)
NextStage(stage) ==
    CASE stage = "pre_process_text" -> "pos_tag"
      [] stage = "pos_tag" -> "load_embeddings"
      [] stage = "load_embeddings" -> "word_embeddings"
      [] stage = "word_embeddings" -> "extract_features"
      [] stage = "extract_features" -> "done"

\* mutant: the loop pairs the first text with the first entity list and stops
ZipLen_first_only == Min(1, Min(Len(text_list), Len(entity_list)))

\* zip(text_list, entity_list) stops at the shorter list
ZipLen == Min(Len(text_list), Len(entity_list))

Raise(e) ==
    /\ pc' = "raised"
    /\ error' = e

(***************************************************************************)
(* pre_process_text: one iteration of the loop of lines 114-117.           *)
(***************************************************************************)
\* mutant: a sentence whose alignment fails is skipped and the loop goes on
PreProcessTextStep_skipping ==
    /\ pc = "pre_process_text"
    /\ i < ZipLen
    /\ LET r == pre_process_text_(text_list[i + 1], entity_list[i + 1])
       IN /\ entity_list' = [entity_list EXCEPT ![i + 1] = SubstitutionOrder(@)]
          /\ doc' = IF r.error # "none" THEN doc
                    ELSE [doc EXCEPT !.text_list = Append(@, r.tokens),
                                     !.labels = Append(@, r.labels)]
          /\ i' = i + 1
    /\ UNCHANGED <<pc, error, text_list, cloud_embeddings, store, loaded, vocab,
                   word_vectors, features, returned>>

PreProcessTextStep ==
    /\ pc = "pre_process_text"
    /\ i < ZipLen
    /\ LET r == pre_process_text_(text_list[i + 1], entity_list[i + 1])
       IN /\ entity_list' = [entity_list EXCEPT ![i + 1] = SubstitutionOrder(@)]
          /\ IF r.error # "none"
             THEN /\ Raise(r.error)
                  /\ UNCHANGED <<i, doc>>
             ELSE /\ doc' = [doc EXCEPT !.text_list = Append(@, r.tokens),
                                        !.labels = Append(@, r.labels)]
                  /\ i' = i + 1
                  /\ UNCHANGED <<pc, error>>
    /\ UNCHANGED <<text_list, cloud_embeddings, store, loaded, vocab, word_vectors,
                   features, returned>>

PreProcessTextDone ==
    /\ pc = "pre_process_text"
    /\ i = ZipLen
    /\ pc' = NextStage(pc)
    /\ i' = 0
    /\ UNCHANGED <<text_list, entity_list, cloud_embeddings, store, doc, loaded, vocab,
                   word_vectors, features, returned, error>>

(***************************************************************************)
(* pos_tag: one iteration of the loop of lines 152-153; the tagger is      *)
(* external and may fail.                                                  *)
(***************************************************************************)
PosTagStep ==
    /\ pc = "pos_tag"
    /\ i < Len(doc.text_list)
    /\ doc' = [doc EXCEPT !.pos_tags = Append(@, PosTagsOf(doc.text_list[i + 1]))]
    /\ i' = i + 1
    /\ UNCHANGED <<pc, text_list, entity_list, cloud_embeddings, store, loaded, vocab,
                   word_vectors, features, returned, error>>

PosTagFail ==
    /\ pc = "pos_tag"
    /\ i < Len(doc.text_list)
    /\ Raise("TaggerError")
    /\ UNCHANGED <<i, text_list, entity_list, cloud_embeddings, store, doc, loaded, vocab,
                   word_vectors, features, returned>>

PosTagDone ==
    /\ pc = "pos_tag"
    /\ i = Len(doc.text_list)
    /\ pc' = NextStage(pc)
    /\ i' = 0
    /\ UNCHANGED <<text_list, entity_list, cloud_embeddings, store, doc, loaded, vocab,
                   word_vectors, features, returned, error>>

(***************************************************************************)
(* lines 320-325: the embedding source, remote or local; loading may fail. *)
(***************************************************************************)
LoadEmbeddings ==
    /\ pc = "load_embeddings"
    /\ IF cloud_embeddings
       THEN /\ vocab' = remote_words_list(doc)
            /\ word_vectors' = load_word_vectors_remote(store, remote_words_list(doc))
       ELSE /\ vocab' = store.vocab
            /\ word_vectors' = store.word_vectors
    /\ loaded' = TRUE
    /\ pc' = NextStage(pc)
    /\ UNCHANGED <<i, text_list, entity_list, cloud_embeddings, store, doc, features,
                   returned, error>>

LoadEmbeddingsFail ==
    /\ pc = "load_embeddings"
    /\ Raise("EmbeddingError")
    /\ loaded' = TRUE
    /\ UNCHANGED <<i, text_list, entity_list, cloud_embeddings, store, doc, vocab,
                   word_vectors, features, returned>>

(***************************************************************************)
(* lines 329-332: word_embeddings for one sentence of the batch.           *)
(***************************************************************************)
WordEmbeddingsStep ==
    /\ pc = "word_embeddings"
    /\ i < Len(doc.text_list)
    /\ doc' = [doc EXCEPT !.word_embeddings =
                  Append(@, word_embeddings(doc.text_list[i + 1], vocab, word_vectors))]
    /\ i' = i + 1
    /\ UNCHANGED <<pc, text_list, entity_list, cloud_embeddings, store, loaded, vocab,
                   word_vectors, features, returned, error>>

WordEmbeddingsDone ==
    /\ pc = "word_embeddings"
    /\ i = Len(doc.text_list)
    /\ pc' = NextStage(pc)
    /\ i' = 0
    /\ UNCHANGED <<text_list, entity_list, cloud_embeddings, store, doc, loaded, vocab,
                   word_vectors, features, returned, error>>

(***************************************************************************)
(* extract_features: one iteration of the loop of lines 294-295, then the  *)
(* return of get_processed_x_y (lines 340-342).                            *)
(***************************************************************************)
ExtractFeaturesStep ==
    /\ pc = "extract_features"
    /\ i < Len(doc.text_list)
    /\ features' = Append(features, SentenceFeatures(doc, i + 1))
    /\ i' = i + 1
    /\ UNCHANGED <<pc, text_list, entity_list, cloud_embeddings, store, doc, loaded, vocab,
                   word_vectors, returned, error>>

Return ==
    /\ pc = "extract_features"
    /\ i = Len(doc.text_list)
    /\ returned' = [set |-> TRUE, features |-> features, labels |-> doc.labels]
    /\ pc' = NextStage(pc)
    /\ UNCHANGED <<i, text_list, entity_list, cloud_embeddings, store, doc, loaded, vocab,
                   word_vectors, features, error>>

Next ==
    \/ PreProcessTextStep
    \/ PreProcessTextDone
    \/ PosTagStep
    \/ PosTagFail
    \/ PosTagDone
    \/ LoadEmbeddings
    \/ LoadEmbeddingsFail
    \/ WordEmbeddingsStep
    \/ WordEmbeddingsDone
    \/ ExtractFeaturesStep
    \/ Return

Spec == Init /\ [][Next]_vars

\* one call of pre_process_text_ on every text and entity list within the bounds
NextAlign == PreProcessTextStep

SpecAlign == InitAlign /\ [][NextAlign]_vars

\* the same, the entities holding characters special to re
SpecPattern == InitPattern /\ [][NextAlign]_vars

(***************************************************************************)
(* Vocabulary of the properties of pre_process_text_: the whole-word       *)
(* occurrences of the entities in the original text, as character spans    *)
(* <<p, l>> (the characters p+1 .. p+l), and the tokens they cover.        *)
(***************************************************************************)
IsLetter(c) == c \in {"a", "A"}

\* the call of pre_process_text_ on sentence 1 has returned
AlignReturned == pc = "pre_process_text" /\ i = 1

TheText == text_list[1]
TheEntities == entity_list[1]
TheTokens == doc.text_list[1]
TheLabels == doc.labels[1]

\* entity e stands at text[p+1 .. p+Len(e)], no letter on either side
LiteralAt(text, e, p) ==
    /\ p + Len(e) <= Len(text)
    /\ \A k \in 1..Len(e) : text[p + k] = e[k]
    /\ p = 0 \/ ~IsLetter(text[p])
    /\ p + Len(e) = Len(text) \/ ~IsLetter(text[p + Len(e) + 1])

OccurrencesOf(text, e) == {<<p, Len(e)>> : p \in {q \in 0..Len(text) : LiteralAt(text, e, q)}}

Occurrences(text, entities) == UNION {OccurrencesOf(text, entities[k]) : k \in 1..Len(entities)}

Overlap(sp1, sp2) ==
    /\ sp1 # sp2
    /\ sp1[1] < sp2[1] + sp2[2]
    /\ sp2[1] < sp1[1] + sp1[2]

\* the index of the token that holds character c of a text of letters and spaces
TokenOf(text, c) ==
    Cardinality({q \in 1..c : text[q] # " " /\ (q = 1 \/ text[q - 1] = " ")})

FirstToken(text, sp) == TokenOf(text, sp[1] + 1)

TokensOf(text, sp) ==
    {TokenOf(text, c) : c \in {q \in (sp[1] + 1)..(sp[1] + sp[2]) : text[q] # " "}}

\* the number of words of an entity
NumWords(e) == Cardinality({q \in 1..Len(e) : e[q] # " " /\ (q = 1 \/ e[q - 1] = " ")})

IsFirstOfOccurrence(t) ==
    \E sp \in Occurrences(TheText, TheEntities) : FirstToken(TheText, sp) = t

IsLaterOfOccurrence(t) ==
    \E sp \in Occurrences(TheText, TheEntities) :
        t \in TokensOf(TheText, sp) /\ t # FirstToken(TheText, sp)

LabelMatchesOccurrences(t) ==
    /\ TheLabels[t] = B_LABEL <=> IsFirstOfOccurrence(t)
    /\ TheLabels[t] = I_LABEL <=> IsLaterOfOccurrence(t)
    /\ TheLabels[t] = O_LABEL <=> ~IsFirstOfOccurrence(t) /\ ~IsLaterOfOccurrence(t)

\* every occurrence that covers token t overlaps no other occurrence
Uncontested(t) ==
    \A sp \in Occurrences(TheText, TheEntities) :
        t \in TokensOf(TheText, sp) =>
            \A sp2 \in Occurrences(TheText, TheEntities) : ~Overlap(sp, sp2)

\* C2 as stated: the tokens returned are the tokenization of the original text,
\* and every token's label is B exactly when it is the first token of a whole-word
\* occurrence of some entity, I exactly when it is a later token of one, O otherwise.
C2_AsStated ==
    AlignReturned =>
        /\ TheTokens = Tokenize(TheText)
        /\ Len(TheLabels) = Len(TheTokens)
        /\ \A t \in 1..Len(TheTokens) : LabelMatchesOccurrences(t)

\* C2, overlapping occurrences left to C3: the same, for every token that lies in
\* no occurrence overlapping another occurrence (of the same or of another entity).
C2_LabelsMatchOccurrences ==
    AlignReturned =>
        /\ TheTokens = Tokenize(TheText)
        /\ Len(TheLabels) = Len(TheTokens)
        /\ \A t \in 1..Len(TheTokens) : Uncontested(t) => LabelMatchesOccurrences(t)

\* C2's case: one entity occurring twice, both occurrences labelled B
C2_Witness ==
    /\ AlignReturned
    /\ TheEntities = <<Str_A>>
    /\ Cardinality(OccurrencesOf(TheText, Str_A)) = 2
    /\ Cardinality({t \in 1..Len(TheLabels) : TheLabels[t] = B_LABEL}) = 2
    /\ \E t \in 1..Len(TheLabels) : TheLabels[t] = O_LABEL

\* the span is labelled B on its first token and I on its other tokens
LabelledAsEntity(sp) ==
    \A t \in TokensOf(TheText, sp) :
        TheLabels[t] = (IF t = FirstToken(TheText, sp) THEN B_LABEL ELSE I_LABEL)

ProperSubstring(short, long) == short # long /\ Contains(long, short)

\* the pairs <<long, short>> of listed entities, short a substring of long
NestedPairs ==
    {pr \in {<<TheEntities[k], TheEntities[m]>> : k, m \in 1..Len(TheEntities)} :
        ProperSubstring(pr[2], pr[1])}

\* C3 as stated: with a listed entity that is a substring of another listed one,
\* every occurrence of the longer one is labelled B then I.
C3_AsStated ==
    AlignReturned =>
        \A pr \in NestedPairs :
            \A sp \in OccurrencesOf(TheText, pr[1]) : LabelledAsEntity(sp)

\* the occurrences that are substituted before those of e or with them: the
\* occurrences of e itself and of the listed entities of at least as many words
Rivals(e) ==
    UNION {OccurrencesOf(TheText, TheEntities[k]) :
              k \in {m \in 1..Len(TheEntities) : NumWords(TheEntities[m]) >= NumWords(e)}}

\* C3, for occurrences free of rivals: with a listed entity that is a substring of another listed one, in
\* any order, every occurrence of the longer one that overlaps no other occurrence
\* of itself or of a listed entity of as many words or more is labelled B then I.
C3_LongestFirst ==
    AlignReturned =>
        \A pr \in NestedPairs :
            \A sp \in OccurrencesOf(TheText, pr[1]) :
                (\A sp2 \in Rivals(pr[1]) : ~Overlap(sp, sp2)) => LabelledAsEntity(sp)

\* C3's case: the shorter entity listed first, the longer one labelled B I
C3_Witness ==
    /\ AlignReturned
    /\ text_list[1] = <<"a", " ", "A", " ", "a">>
    /\ TheEntities = <<Str_A_a, Str_a>>
    /\ TheLabels = <<B_LABEL, B_LABEL, I_LABEL>>

(***************************************************************************)
(* Properties of the pipeline get_processed_x_y.                           *)
(***************************************************************************)
\* the sentences for which all four sequences exist
Complete ==
    {n \in 1..Len(doc.text_list) :
        n <= Len(doc.labels) /\ n <= Len(doc.pos_tags) /\ n <= Len(doc.word_embeddings)}

\* C1: for every sentence the pipeline has processed, labels, tokens, POS tags and
\* embeddings have the same length (and at the return the four lists hold the same
\* number of sentences).
C1_CoIndexed ==
    /\ \A n \in Complete :
          /\ Len(doc.labels[n]) = Len(doc.text_list[n])
          /\ Len(doc.pos_tags[n]) = Len(doc.text_list[n])
          /\ Len(doc.word_embeddings[n]) = Len(doc.text_list[n])
    /\ pc = "done" =>
          /\ Complete = 1..Len(doc.text_list)
          /\ Len(doc.labels) = Len(doc.text_list)
          /\ Len(doc.pos_tags) = Len(doc.text_list)
          /\ Len(doc.word_embeddings) = Len(doc.text_list)

\* C1's case: a returned batch with a six-token sentence that holds an entity and
\* a token outside the vocabulary
C1_Witness ==
    /\ pc = "done"
    /\ \E n \in Complete :
          /\ Len(doc.text_list[n]) = 6
          /\ \E t \in 1..6 : doc.labels[n][t] = I_LABEL
          /\ \E t \in 1..6 : ~InList(vocab, Lower(doc.text_list[n][t]))

\* C4: every token's embedding is the vector at the first vocabulary position of
\* its lowercased form when that form is in the vocabulary, and otherwise the zero
\* vector whose length is the number of columns of the vector table.
C4_LowercaseLookup ==
    \A n \in 1..Len(doc.word_embeddings) :
        \A t \in 1..Len(doc.text_list[n]) :
            LET key == Lower(doc.text_list[n][t])
                vec == doc.word_embeddings[n][t]
                hits == {k \in 1..Len(vocab) : vocab[k] = key}
            IN /\ hits # {} =>
                     \E k \in hits : (\A m \in hits : k <= m) /\ vec = word_vectors[k]
               /\ hits = {} =>
                     /\ Len(vec) = Len(word_vectors[1])
                     /\ \A c \in 1..Len(vec) : vec[c] = 0

\* C4's case: with the local table, an uppercase token received the vector stored
\* for its lowercase form and another token, not in the vocabulary, the zero vector
C4_Witness ==
    /\ ~cloud_embeddings
    /\ \E n \in 1..Len(doc.word_embeddings) :
          \E t, u \in 1..Len(doc.text_list[n]) :
              /\ doc.text_list[n][t] = Str_A
              /\ doc.word_embeddings[n][t] = <<1, 2>>
              /\ doc.text_list[n][u] = <<"a", "a", "a">>
              /\ doc.word_embeddings[n][u] = <<0, 0>>

\* C5 as stated: with cloud_embeddings every token receives the embedding the
\* local strategy gives it.
C5_Interchangeable ==
    (pc = "done" /\ cloud_embeddings) =>
        \A n \in 1..Len(doc.text_list) :
            doc.word_embeddings[n] =
                word_embeddings(doc.text_list[n], store.vocab, store.word_vectors)

InSentence(j, n) == 0 <= j /\ j < n

\* C6: the feature vector of token j of a sentence of n tokens has
\* (6 + D) + (5 + D) * k + s features, k the neighbours at -2, -1, +1, +2 that
\* exist and s the neighbours at -1, +1 that do not.
C6_FeatureCount ==
    \A n \in 1..Len(features) :
        \A j \in 0..(Len(features[n]) - 1) :
            LET len == Len(doc.text_list[n])
                D == Len(word_vectors[1])
                k == Cardinality({off \in {-2, -1, 1, 2} : InSentence(j + off, len)})
                sentinels == Cardinality({off \in {-1, 1} : ~InSentence(j + off, len)})
            IN Len(features[n][j + 1]) = (6 + D) + (5 + D) * k + sentinels

\* C6's case: a token with all four neighbours and a one-token sentence
C6_Witness ==
    /\ \E n \in 1..Len(features) : Len(features[n]) = 6
    /\ \E n \in 1..Len(features) :
          Len(features[n]) = 1 /\ Len(features[n][1]) = 6 + Len(word_vectors[1]) + 2

HasPrefix(fv, prefix) == \E x \in 1..Len(fv) : fv[x].prefix = prefix
HasName(fv, name) == \E x \in 1..Len(fv) : fv[x].name = name

\* what a neighbour feature named f.name holds when read at token j (from 0) of sentence n
ReadAt(n, j, f) ==
    LET word == doc.text_list[n][j + 1]
    IN CASE f.name = "word.lower" -> f.value = Lower(word)
         [] f.name = "word.istitle" -> f.value = BoolStr(IsTitle(word))
         [] f.name = "word.isupper" -> f.value = BoolStr(IsUpper(word))
         [] f.name = "word.isdigit" -> f.value = BoolStr(IsDigit(word))
         [] f.name = "pos_tag" -> f.value = <<doc.pos_tags[n][j + 1]>>
         [] f.name = WORD_VEC_FEATURE -> f.value = <<doc.word_embeddings[n][j + 1][f.idx + 1]>>
         [] OTHER -> FALSE

OffsetOf(prefix) ==
    CASE prefix = "-2" -> -2 [] prefix = "-1" -> -1 [] prefix = "+1" -> 1 [] prefix = "+2" -> 2

\* C7: the BOS sentinel is present exactly at j = 0 and then no -1 or -2 feature
\* is; the EOS sentinel exactly at j = n - 1 and then no +1 or +2 feature is; the
\* features of each offset are present exactly when that position exists, and each
\* is read from the same sentence at that offset.
C7_SentinelsAndNeighbours ==
    \A n \in 1..Len(features) :
        \A j \in 0..(Len(features[n]) - 1) :
            LET fv == features[n][j + 1]
                len == Len(doc.text_list[n])
            IN /\ HasName(fv, BOS) <=> j = 0
               /\ HasName(fv, BOS) => ~HasPrefix(fv, "-1") /\ ~HasPrefix(fv, "-2")
               /\ HasName(fv, EOS) <=> j = len - 1
               /\ HasName(fv, EOS) => ~HasPrefix(fv, "+1") /\ ~HasPrefix(fv, "+2")
               /\ \A pre \in {"-2", "-1", "+1", "+2"} :
                     HasPrefix(fv, pre) <=> InSentence(j + OffsetOf(pre), len)
               /\ \A x \in 1..Len(fv) :
                     fv[x].prefix # "" => ReadAt(n, j + OffsetOf(fv[x].prefix), fv[x])

\* C7's case: a one-token sentence carries both sentinels, and a token in the middle of
\* a six-token sentence carries the features of all four neighbours
C7_Witness ==
    /\ \E n \in 1..Len(features) :
          Len(features[n]) = 1 /\ HasName(features[n][1], BOS) /\ HasName(features[n][1], EOS)
    /\ \E n \in 1..Len(features) :
          /\ Len(features[n]) = 6
          /\ \A pre \in {"-2", "-1", "+1", "+2"} : HasPrefix(features[n][3], pre)

\* C8 as stated: the call succeeds whatever characters the entity holds, and the
\* labels are those of the whole-word occurrences of the entities' literal text.
C8_LiteralMatch ==
    /\ pc = "raised" => error = "none"
    /\ AlignReturned =>
          \A t \in 1..Len(TheTokens) : Uncontested(t) => LabelMatchesOccurrences(t)

\* the sentences whose alignment has been attempted and has not raised
Attempted == IF pc = "pre_process_text" THEN i ELSE ZipLen

\* C9: an error in a stage leaves the call with nothing returned and no output of
\* a later stage; while no error has left the call, no sentence whose alignment
\* fails has been passed over; what is returned holds every sentence of the batch.
C9_BatchAborts ==
    /\ pc = "raised" =>
          /\ error # "none"
          /\ ~returned.set
          /\ features = <<>>
          /\ doc.word_embeddings = <<>>
          /\ error \in {"re.error", "IndexError"} => doc.pos_tags = <<>> /\ ~loaded
          /\ error = "TaggerError" => ~loaded
    /\ pc # "raised" =>
          /\ error = "none"
          /\ \A k \in 1..Attempted :
                pre_process_text_(text_list[k], entity_list[k]).error = "none"
    /\ returned.set =>
          /\ pc = "done"
          /\ Len(returned.labels) = ZipLen
          /\ Len(returned.features) = ZipLen

\* C9's case: the second sentence of a batch of two failed to align
C9_Witness ==
    /\ pc = "raised"
    /\ error = "re.error"
    /\ ZipLen = 2
    /\ Len(doc.text_list) = 1

\* C10: a sentence has POS tags only when it has tokens and labels, embeddings only
\* when it has POS tags, features only when it has all three; POS tagging starts
\* when the whole batch is aligned; the embedding source is consulted when the whole
\* batch is tagged and before any embedding or feature exists.
C10_StageOrder ==
    /\ Len(doc.labels) = Len(doc.text_list)
    /\ Len(doc.pos_tags) <= Len(doc.text_list)
    /\ Len(doc.word_embeddings) <= Len(doc.pos_tags)
    /\ Len(features) <= Len(doc.word_embeddings)
    /\ doc.pos_tags # <<>> => Len(doc.text_list) = ZipLen
    /\ loaded => Len(doc.pos_tags) = Len(doc.text_list) /\ Len(doc.text_list) = ZipLen
    /\ ~loaded => doc.word_embeddings = <<>> /\ features = <<>>
    /\ features # <<>> => Len(doc.word_embeddings) = Len(doc.text_list)

\* C10's case: a batch of two sentences went through every stage, remote embeddings
C10_Witness ==
    /\ pc = "done"
    /\ cloud_embeddings
    /\ Len(features) = 2
    /\ Len(doc.pos_tags) = 2

(***************************************************************************)
(* Properties of pre_process_text_ when the two tokenizations differ in    *)
(* length.                                                                 *)
(***************************************************************************)
\* the one call of pre_process_text_ has ended, by a return or by an error
AlignEnded == AlignReturned \/ pc = "raised"

\* every entity of the call compiles as a pattern
Compiles == \A k \in 1..Len(TheEntities) : ~ReCompileError(TheEntities[k])

\* the tokenization of the original text
ReferenceTokens == Tokenize(TheText)

\* the tokenization of the text in which the entities have been marked
MarkedTokens == Tokenize(SubstituteAll(TheText, SortEntities(TheEntities)))

\* C11 as stated: whenever the marked tokenization and the reference tokenization
\* differ in length, the call raises no error and returns.
C11_AsStated ==
    AlignEnded /\ Compiles /\ Len(MarkedTokens) # Len(ReferenceTokens) =>
        AlignReturned /\ error = "none"

\* C11: when the marked tokenization is longer than the reference tokenization the
\* call returns the reference tokens with as many labels as tokens, label t read
\* from marked token t; when it is shorter the call raises IndexError; when the
\* lengths agree the call returns.
C11_LengthMismatch ==
    AlignEnded /\ Compiles =>
        /\ Len(MarkedTokens) >= Len(ReferenceTokens) =>
              /\ AlignReturned
              /\ error = "none"
              /\ TheTokens = ReferenceTokens
              /\ Len(TheLabels) = Len(TheTokens)
              /\ \A t \in 1..Len(TheLabels) : TheLabels[t] = LabelOf(MarkedTokens[t])
        /\ Len(MarkedTokens) < Len(ReferenceTokens) =>
              /\ pc = "raised"
              /\ error = "IndexError"
              /\ doc.labels = <<>>

\* C11's case: the marked tokenization is longer (three tokens for two), the call
\* returned, and the second token, outside the one match, is labelled I
C11_Witness ==
    /\ AlignReturned
    /\ TheText = <<"a", "a", " ", "a">>
    /\ TheEntities = << <<"a", ".">> >>
    /\ Len(MarkedTokens) = Len(ReferenceTokens) + 1
    /\ TheTokens = << <<"a", "a">>, <<"a">> >>
    /\ TheLabels = <<B_LABEL, I_LABEL>>

\* the other case of C11: the marked tokenization is shorter and the call raised
C11_Shorter ==
    /\ pc = "raised"
    /\ error = "IndexError"
    /\ Compiles
    /\ Len(MarkedTokens) < Len(ReferenceTokens)

(***************************************************************************)
(* The size of the output of get_processed_x_y.                            *)
(***************************************************************************)
\* the shorter of the two argument lists' lengths
Sentences ==
    IF Len(text_list) <= Len(entity_list) THEN Len(text_list) ELSE Len(entity_list)

\* C12: what get_processed_x_y returns holds as many sentences as the shorter of
\* text_list and entity_list, features and labels alike, sentence k being that of
\* text_list[k], one label and one feature list per token; the texts beyond the
\* length of entity_list cause no error (an alignment error comes from one of the
\* paired texts); with the default entity_list a batch returns its first text only.
C12_ZipTruncation ==
    /\ returned.set =>
          /\ error = "none"
          /\ Len(returned.features) = Sentences
          /\ Len(returned.labels) = Sentences
          /\ Len(returned.features) = Len(returned.labels)
          /\ \A k \in 1..Sentences :
                /\ doc.text_list[k] = Tokenize(text_list[k])
                /\ Len(returned.labels[k]) = Len(Tokenize(text_list[k]))
                /\ Len(returned.features[k]) = Len(Tokenize(text_list[k]))
          /\ entity_list = << <<>> >> /\ text_list # <<>> =>
                Len(returned.features) = 1 /\ Len(returned.labels) = 1
    /\ pc = "raised" /\ error \in {"re.error", "IndexError"} =>
          Len(doc.text_list) < Sentences

\* C12's case: a batch of two different texts with the default entity_list
\* returned the first text's sentence only
C12_Witness ==
    /\ returned.set
    /\ error = "none"
    /\ Len(text_list) = 2
    /\ text_list[1] # text_list[2]
    /\ entity_list = << <<>> >>
    /\ Len(returned.features) = 1
    /\ Len(returned.labels) = 1
    /\ doc.text_list = <<Tokenize(text_list[1])>>

====
